---- MODULE Spec2Model ----
(***************************************************************************)
(* PyDash backend: the ingestion-to-alert pipeline.                        *)
(*                                                                         *)
(* Two transports (the HTTP endpoint add_sensor_data and the MQTT callback *)
(* on_message) build a sensor_data dictionary and hand it to               *)
(* process_sensor_data, which registers the sensor, appends the reading    *)
(* and runs check_alert_conditions / create_alert.  Every db.query and     *)
(* every db.commit is one atomic step on the shared database; the MQTT     *)
(* loop thread and the HTTP worker threads interleave between them.        *)
(*                                                                         *)
(* Strings that the code splits or joins on '_' are sequences of words:    *)
(* "living_room" is <<"living", "room">>, "temperature_den" is             *)
(* <<"temperature", "den">>.  A topic is the sequence of its '/' segments. *)
(* Time is counted in half hours, so timedelta(hours=1) is 2.              *)
(***************************************************************************)
EXTENDS Integers, Sequences, FiniteSets, TLC

\* ---------------------------------------------------------------- bounds
MaxInputs == 2
MaxTime == 3
NumWorkers == 1

\* ------------------------------------------------------- config.py values
TEMPERATURE_MIN == 10
TEMPERATURE_MAX == 30
HUMIDITY_MIN == 20
HUMIDITY_MAX == 80
\* timedelta(hours=1), in half hours
Hour == 2

\* --------------------------------------------------------------- threads
MqttThread == 0
Workers == 1..NumWorkers
Procs == {MqttThread} \cup Workers

VARIABLES
    sensors,      \* table "sensors": sequence of rows, the index is the row id
    readings,     \* table "sensor_readings"
    alerts,       \* table "alerts"
    now,          \* datetime.utcnow()
    pc,           \* per thread: where it stands in its handler
    sensor_data,  \* per thread: the dictionary handed to process_sensor_data
    reading,      \* per thread: row id of the SensorReading it committed, 0 if none
    alert,        \* per thread: row id of the Alert it committed, 0 if none
    recent_alert, \* per thread: "unset", "found" or "none" (create_alert's query)
    printed,      \* per thread: the error line the current handler printed, "" if none
    returned,     \* per thread: what process_sensor_data gave its caller
    response,     \* per worker: the HTTP response body's status, "" before it is sent
    mqtt_msg,     \* the message the MQTT callback was last called with
    log,          \* the set of error lines printed so far (stdout)
    ninputs,      \* number of HTTP requests and MQTT messages received so far
    mqtt_client,  \* main.py's global: "unset" until startup_event has run, then
                  \* "client" (connected, loop thread started) or "none"
    query,        \* the GET .../readings request being answered, NoQuery if none
    result        \* row ids of the readings that request returns, in order

vars == <<sensors, readings, alerts, now, pc, sensor_data, reading, alert,
          recent_alert, printed, returned, response, mqtt_msg, log, ninputs,
          mqtt_client, query, result>>

\* ------------------------------------------------------- error lines (print)
ErrMqtt == "Error processing MQTT message"
ErrStoreIntegrity == "Error storing sensor data: IntegrityError"
ErrStoreOperational == "Error storing sensor data: OperationalError"
ErrAlert == "Error checking alert conditions: OperationalError"
ErrBroker == "Failed to connect to MQTT broker"
WarnNoMqtt == "Warning: Could not start MQTT client"

\* ------------------------------------------------------------ input values
TempId == <<"temperature", "den">>
HumId == <<"humidity", "den">>
\* a type of two words: topic sensors/temperature_outdoor/den
OutdoorType == <<"temperature", "outdoor">>
OutdoorId == <<"temperature", "outdoor", "den">>

\* An HTTP request body (SensorData): sensor_id, value, unit (default "").
HttpBody(id, v, u) == [sensor_id |-> id, value |-> v, unit |-> u]

\* An MQTT message: topic segments and a payload.  json says whether
\* json.loads accepts the payload and whether the result is an object;
\* has_value / has_unit say which keys the object holds.
JsonObject(hv, v, hu, u) ==
    [json |-> "object", has_value |-> hv, value |-> v, has_unit |-> hu, unit |-> u]
BadJson == [json |-> "invalid", has_value |-> FALSE, value |-> 0, has_unit |-> FALSE, unit |-> ""]
JsonNumber == [json |-> "number", has_value |-> FALSE, value |-> 0, has_unit |-> FALSE, unit |-> ""]
Message(t, p) == [topic |-> t, payload |-> p]
Topic(type, loc) == <<<<"sensors">>, type, loc>>
NoMessage == Message(<<>>, BadJson)

\* Readings the sequential scenarios draw from: for each known type a value
\* below min, at min, inside, at max and above max; one unknown type.
TempValues == {0, TEMPERATURE_MIN, 20, TEMPERATURE_MAX, 35}
HumValues == {10, HUMIDITY_MIN, 50, HUMIDITY_MAX, 85}
SeqHttpBodies ==
    {HttpBody(TempId, v, "C") : v \in TempValues}
        \cup {HttpBody(HumId, v, "") : v \in HumValues}
SeqMessages ==
    {Message(Topic(<<"temperature">>, <<"den">>), JsonObject(TRUE, v, TRUE, "C")) : v \in {0, 35}}
        \cup {Message(Topic(<<"pressure">>, <<"den">>), JsonObject(TRUE, v, FALSE, "")) : v \in {0, 85}}

\* Inputs of the concurrent system: an in-range and an alert-worthy reading
\* by HTTP, an alert-worthy reading for the same sensor by MQTT, and the
\* malformed messages (invalid JSON, JSON that is no object, a topic of two
\* segments).
HttpBodies == {HttpBody(TempId, v, "C") : v \in {20, 35}}
GoodMessages ==
    {Message(Topic(<<"temperature">>, <<"den">>), JsonObject(TRUE, 35, TRUE, "C"))}
BadMessages ==
    { Message(Topic(<<"temperature">>, <<"den">>), BadJson),
      Message(Topic(<<"temperature">>, <<"den">>), JsonNumber),
      Message(<<<<"sensors">>, <<"temperature">>>>, JsonObject(TRUE, 35, TRUE, "C")) }
\* Well-formed messages off the usual path: a payload without the "value"
\* key, and a type of two words.
OddMessages ==
    { Message(Topic(<<"temperature">>, <<"den">>), JsonObject(FALSE, 0, TRUE, "C")),
      Message(Topic(OutdoorType, <<"den">>), JsonObject(TRUE, 35, TRUE, "C")) }
Messages == GoodMessages \cup BadMessages \cup OddMessages

\* ---------------------------------------------------------------- strings
\* str.capitalize() / str.title() / str.replace('_', ' ') are kept as the
\* formatting applied to the words; the raw string is fmt "raw".
Text(fmt, words) == [fmt |-> fmt, words |-> words]

NoData ==
    [sensor_id |-> <<>>, name |-> Text("raw", <<>>), location |-> Text("raw", <<>>),
     sensor_type |-> <<>>, value |-> 0, unit |-> "", timestamp |-> 0]

\* ----------------------------------------------------------- table queries
\* db.query(Sensor).filter(Sensor.sensor_id == id).first(): the row id, 0 for None
FindSensor(id) ==
    IF \E i \in 1..Len(sensors) : sensors[i].sensor_id = id
    THEN CHOOSE i \in 1..Len(sensors) :
            /\ sensors[i].sensor_id = id
            /\ \A j \in 1..Len(sensors) : sensors[j].sensor_id = id => i <= j
    ELSE 0

\* Mutant: the comparison of the filter is turned round.
RecentAlert_Reversed(id, one_hour_ago) ==
    \E i \in 1..Len(alerts) :
        /\ alerts[i].sensor_id = id
        /\ alerts[i].timestamp < one_hour_ago

\* Mutant: the comparison of the filter includes one_hour_ago itself.
RecentAlert_Inclusive(id, one_hour_ago) ==
    \E i \in 1..Len(alerts) :
        /\ alerts[i].sensor_id = id
        /\ alerts[i].timestamp >= one_hour_ago

\* Mutant: the filter on the sensor is missing.
RecentAlert_AnySensor(id, one_hour_ago) ==
    \E i \in 1..Len(alerts) : alerts[i].timestamp > one_hour_ago

\* Mutant: the filter on the timestamp is missing.
RecentAlert_NoWindow(id, one_hour_ago) ==
    \E i \in 1..Len(alerts) : alerts[i].sensor_id = id

\* create_alert's query: an Alert of this sensor newer than one_hour_ago
RecentAlert(id, one_hour_ago) ==
    \E i \in 1..Len(alerts) :
        /\ alerts[i].sensor_id = id
        /\ alerts[i].timestamp > one_hour_ago

\* Mutant: the column has no UNIQUE constraint.
UniqueViolation_NoConstraint(id) == FALSE

\* UNIQUE constraint on sensors.sensor_id: an INSERT of a second row with
\* the same sensor_id raises IntegrityError at commit
UniqueViolation(id) == FindSensor(id) # 0

\* ------------------------------------------------- check_alert_conditions
\* The create_alert call check_alert_conditions makes for (sensor_type,
\* value): fire says whether there is one, threshold and message are its
\* arguments.  The message is kept as its parts, in the order they appear.
AlertMessage(dir, kind, v, th) ==
    [direction |-> dir, kind |-> kind, value |-> v, threshold |-> th]
NoCandidate == [fire |-> FALSE, threshold |-> 0, message |-> AlertMessage("", "", 0, 0)]
Candidate(th, msg) == [fire |-> TRUE, threshold |-> th, message |-> msg]

\* Mutant: the high-temperature branch passes TEMPERATURE_MIN.
check_alert_conditions_CopiedThreshold(sensor_type, value) ==
    IF sensor_type = <<"temperature">>
    THEN IF value < TEMPERATURE_MIN
         THEN Candidate(TEMPERATURE_MIN,
                        AlertMessage("Low", "temperature", value, TEMPERATURE_MIN))
         ELSE IF value > TEMPERATURE_MAX
         THEN Candidate(TEMPERATURE_MIN,
                        AlertMessage("High", "temperature", value, TEMPERATURE_MIN))
         ELSE NoCandidate
    ELSE IF sensor_type = <<"humidity">>
    THEN IF value < HUMIDITY_MIN
         THEN Candidate(HUMIDITY_MIN,
                        AlertMessage("Low", "humidity", value, HUMIDITY_MIN))
         ELSE IF value > HUMIDITY_MAX
         THEN Candidate(HUMIDITY_MAX,
                        AlertMessage("High", "humidity", value, HUMIDITY_MAX))
         ELSE NoCandidate
    ELSE NoCandidate

\* Mutant: a type that is not known is checked against the temperature
\* bounds.
check_alert_conditions_AnyType(sensor_type, value) ==
    IF sensor_type = <<"humidity">>
    THEN IF value < HUMIDITY_MIN
         THEN Candidate(HUMIDITY_MIN,
                        AlertMessage("Low", "humidity", value, HUMIDITY_MIN))
         ELSE IF value > HUMIDITY_MAX
         THEN Candidate(HUMIDITY_MAX,
                        AlertMessage("High", "humidity", value, HUMIDITY_MAX))
         ELSE NoCandidate
    ELSE IF value < TEMPERATURE_MIN
         THEN Candidate(TEMPERATURE_MIN,
                        AlertMessage("Low", "temperature", value, TEMPERATURE_MIN))
         ELSE IF value > TEMPERATURE_MAX
         THEN Candidate(TEMPERATURE_MAX,
                        AlertMessage("High", "temperature", value, TEMPERATURE_MAX))
         ELSE NoCandidate

\* Mutant: the comparisons include the bounds (<=, >=).
check_alert_conditions_Inclusive(sensor_type, value) ==
    IF sensor_type = <<"temperature">>
    THEN IF value <= TEMPERATURE_MIN
         THEN Candidate(TEMPERATURE_MIN,
                        AlertMessage("Low", "temperature", value, TEMPERATURE_MIN))
         ELSE IF value >= TEMPERATURE_MAX
         THEN Candidate(TEMPERATURE_MAX,
                        AlertMessage("High", "temperature", value, TEMPERATURE_MAX))
         ELSE NoCandidate
    ELSE IF sensor_type = <<"humidity">>
    THEN IF value <= HUMIDITY_MIN
         THEN Candidate(HUMIDITY_MIN,
                        AlertMessage("Low", "humidity", value, HUMIDITY_MIN))
         ELSE IF value >= HUMIDITY_MAX
         THEN Candidate(HUMIDITY_MAX,
                        AlertMessage("High", "humidity", value, HUMIDITY_MAX))
         ELSE NoCandidate
    ELSE NoCandidate

check_alert_conditions(sensor_type, value) ==
    IF sensor_type = <<"temperature">>
    THEN IF value < TEMPERATURE_MIN
         THEN Candidate(TEMPERATURE_MIN,
                        AlertMessage("Low", "temperature", value, TEMPERATURE_MIN))
         ELSE IF value > TEMPERATURE_MAX
         THEN Candidate(TEMPERATURE_MAX,
                        AlertMessage("High", "temperature", value, TEMPERATURE_MAX))
         ELSE NoCandidate
    ELSE IF sensor_type = <<"humidity">>
    THEN IF value < HUMIDITY_MIN
         THEN Candidate(HUMIDITY_MIN,
                        AlertMessage("Low", "humidity", value, HUMIDITY_MIN))
         ELSE IF value > HUMIDITY_MAX
         THEN Candidate(HUMIDITY_MAX,
                        AlertMessage("High", "humidity", value, HUMIDITY_MAX))
         ELSE NoCandidate
    ELSE NoCandidate

\* ------------------------------------------------------- GET .../readings
\* The parameters of get_sensor_readings; an Optional[datetime] is the empty
\* set for None and {t} for the time t.
Query(id, limit, start_time, end_time) ==
    [sensor_id |-> id, limit |-> limit, start_time |-> start_time, end_time |-> end_time]
NoQuery == Query(<<>>, 0, {}, {})

\* ------------------------------------------------------------------- Init
\* The state of the process before startup_event: the tables are those of
\* a new database (init_db creates them empty), no thread runs a handler.
InitStore ==
    /\ sensors = <<>>
    /\ readings = <<>>
    /\ alerts = <<>>
    /\ now = 0
    /\ pc = [p \in Procs |-> "idle"]
    /\ sensor_data = [p \in Procs |-> NoData]
    /\ reading = [p \in Procs |-> 0]
    /\ alert = [p \in Procs |-> 0]
    /\ recent_alert = [p \in Procs |-> "unset"]
    /\ printed = [p \in Procs |-> ""]
    /\ returned = [p \in Procs |-> ""]
    /\ response = [p \in Workers |-> ""]
    /\ mqtt_msg = NoMessage
    /\ log = {}
    /\ ninputs = 0
    /\ query = NoQuery
    /\ result = <<>>

InitBoot == InitStore /\ mqtt_client = "unset"

\* The state once startup_event has run with the broker reachable.
Init == InitStore /\ mqtt_client = "client"

\* ---------------------------------------------------------------- startup
\* mqtt_client.py start_mqtt_client: client.connect raises when the broker
\* cannot be reached; the except prints and re-raises.
start_mqtt_client(reachable) ==
    IF reachable
    THEN [raised |-> FALSE, client |-> "client", printed |-> {}]
    ELSE [raised |-> TRUE, client |-> "none", printed |-> {ErrBroker}]

\* Mutant: startup_event calls start_mqtt_client outside a try, so the
\* exception ends the startup and the server exits.
AfterStart_NoTry(r) ==
    IF r.raised
    THEN [mqtt_client |-> "crashed", printed |-> r.printed]
    ELSE [mqtt_client |-> r.client, printed |-> r.printed]

\* main.py startup_event around the call: the except prints the warning
\* and the startup goes on without a client.
AfterStart(r) ==
    IF r.raised
    THEN [mqtt_client |-> "none", printed |-> r.printed \cup {WarnNoMqtt}]
    ELSE [mqtt_client |-> r.client, printed |-> r.printed]

startup_event(reachable) ==
    LET a == AfterStart(start_mqtt_client(reachable))
    IN  /\ mqtt_client = "unset"
        /\ mqtt_client' = a.mqtt_client
        /\ log' = log \cup a.printed
        /\ UNCHANGED <<sensors, readings, alerts, now, pc, sensor_data, reading, alert,
                       recent_alert, printed, returned, response, mqtt_msg, ninputs,
                       query, result>>

\* The server takes requests once the startup has completed.
Running == mqtt_client \in {"client", "none"}

\* The clock advances between any two steps.
Tick ==
    /\ now < MaxTime
    /\ now' = now + 1
    /\ UNCHANGED <<sensors, readings, alerts, pc, sensor_data, reading, alert,
                   recent_alert, printed, returned, response, mqtt_msg, log, ninputs,
                   mqtt_client, query, result>>

\* ------------------------------------------------------------- transports
\* main.py add_sensor_data builds this dictionary from the request body and
\* the Sensor row it found (row id s, 0 when there is none).
HttpSensorData(body, s) ==
    [sensor_id |-> body.sensor_id,
     name |-> IF s # 0 THEN sensors[s].name ELSE Text("raw", body.sensor_id),
     location |-> IF s # 0 THEN sensors[s].location ELSE Text("raw", <<"unknown">>),
     sensor_type |-> IF s # 0 THEN sensors[s].sensor_type ELSE <<Head(body.sensor_id)>>,
     value |-> body.value,
     unit |-> body.unit,
     timestamp |-> now]

\* POST /api/sensors/data: look the sensor up, queue process_sensor_data as a
\* background task, answer {"status": "success"}.
add_sensor_data(p, body) ==
    /\ p \in Workers
    /\ Running
    /\ pc[p] = "idle"
    /\ ninputs < MaxInputs
    /\ ninputs' = ninputs + 1
    /\ sensor_data' = [sensor_data EXCEPT ![p] = HttpSensorData(body, FindSensor(body.sensor_id))]
    /\ pc' = [pc EXCEPT ![p] = "queued"]
    /\ response' = [response EXCEPT ![p] = "success"]
    /\ UNCHANGED <<sensors, readings, alerts, now, reading, alert, recent_alert,
                   printed, returned, mqtt_msg, log,
                   mqtt_client, query, result>>

\* Mutant: the queued task is discarded when the response has been sent.
RunBackgroundTask_Discarded(p) ==
    /\ p \in Workers
    /\ pc[p] = "queued"
    /\ pc' = [pc EXCEPT ![p] = "done"]
    /\ UNCHANGED <<sensors, readings, alerts, now, sensor_data, reading, alert,
                   recent_alert, printed, returned, response, mqtt_msg, log, ninputs,
                   mqtt_client, query, result>>

\* The background task starts: process_sensor_data(sensor_data) is entered.
RunBackgroundTask(p) ==
    /\ p \in Workers
    /\ pc[p] = "queued"
    /\ pc' = [pc EXCEPT ![p] = "query_sensor"]
    /\ UNCHANGED <<sensors, readings, alerts, now, sensor_data, reading, alert,
                   recent_alert, printed, returned, response, mqtt_msg, log, ninputs,
                   mqtt_client, query, result>>

\* Mutant: a payload json.loads rejects is taken as the empty object.
ParseMessage_EmptyOnBadJson(msg) ==
    IF Len(msg.topic) < 3
    THEN [outcome |-> "ignored", data |-> NoData]
    ELSE IF msg.payload.json = "number"
    THEN [outcome |-> "error", data |-> NoData]
    ELSE [outcome |-> "process",
          data |-> [sensor_id |-> msg.topic[2] \o msg.topic[3],
                    name |-> Text("capitalize Sensor", msg.topic[2]),
                    location |-> Text("title", msg.topic[3]),
                    sensor_type |-> msg.topic[2],
                    value |-> IF msg.payload.has_value THEN msg.payload.value ELSE 0,
                    unit |-> IF msg.payload.has_unit THEN msg.payload.unit ELSE "",
                    timestamp |-> now]]

\* mqtt_client.py on_message, up to the call of process_sensor_data:
\* json.loads first, then the topic split and its length test, then the
\* dictionary (payload.get needs an object).  outcome is "error" when an
\* exception reaches the handler's except, "ignored" when the topic is too
\* short, "process" when process_sensor_data is called with data.
ParseMessage(msg) ==
    IF msg.payload.json = "invalid"
    THEN [outcome |-> "error", data |-> NoData]
    ELSE IF Len(msg.topic) < 3
    THEN [outcome |-> "ignored", data |-> NoData]
    ELSE IF msg.payload.json # "object"
    THEN [outcome |-> "error", data |-> NoData]
    ELSE [outcome |-> "process",
          data |-> [sensor_id |-> msg.topic[2] \o msg.topic[3],
                    name |-> Text("capitalize Sensor", msg.topic[2]),
                    location |-> Text("title", msg.topic[3]),
                    sensor_type |-> msg.topic[2],
                    value |-> IF msg.payload.has_value THEN msg.payload.value ELSE 0,
                    unit |-> IF msg.payload.has_unit THEN msg.payload.unit ELSE "",
                    timestamp |-> now]]

\* Where the callback stands after ParseMessage: an exception is caught and
\* printed by on_message's own except, so the callback returns.
AfterParse(outcome) ==
    IF outcome = "process" THEN "query_sensor" ELSE "done"

on_message(msg) ==
    LET r == ParseMessage(msg)
        line == IF r.outcome = "error" THEN ErrMqtt ELSE ""
    IN  /\ mqtt_client = "client"
        /\ pc[MqttThread] = "idle"
        /\ ninputs < MaxInputs
        /\ ninputs' = ninputs + 1
        /\ mqtt_msg' = msg
        /\ sensor_data' = [sensor_data EXCEPT ![MqttThread] = r.data]
        /\ pc' = [pc EXCEPT ![MqttThread] = AfterParse(r.outcome)]
        /\ printed' = [printed EXCEPT ![MqttThread] = line]
        /\ log' = IF line = "" THEN log ELSE log \cup {line}
        /\ UNCHANGED <<sensors, readings, alerts, now, reading, alert, recent_alert,
                       returned, response,
                   mqtt_client, query, result>>

\* ------------------------------------------------------ get_sensor_readings
\* query.filter(sensor_id == ...), then the two optional filters on the
\* timestamp: the row ids that are left.
Matching(id, start_time, end_time) ==
    {i \in 1..Len(readings) :
        /\ readings[i].sensor_id = id
        /\ \A t \in start_time : readings[i].timestamp >= t
        /\ \A t \in end_time : readings[i].timestamp <= t}

\* order_by(timestamp.desc()): every order of the rows the database may
\* give, rows of equal timestamp coming in any order.
OrderByDesc(rows) ==
    {s \in [1..Cardinality(rows) -> rows] :
        /\ \A i, j \in 1..Cardinality(rows) : s[i] = s[j] => i = j
        /\ \A i, j \in 1..Cardinality(rows) :
                i < j => readings[s[i]].timestamp >= readings[s[j]].timestamp}

\* Mutant: one row more than asked for.
Limit_OneMore(s, limit) ==
    IF limit < 0 \/ limit + 1 >= Len(s) THEN s ELSE SubSeq(s, 1, limit + 1)

\* .limit(limit): the first limit rows; SQLite takes a negative LIMIT as no
\* limit.
Limit(s, limit) ==
    IF limit < 0 \/ limit >= Len(s) THEN s ELSE SubSeq(s, 1, limit)

\* The requests: both sensors, a limit of -1 .. MaxInputs + 1, a window that
\* is open or closed on either side.
Limits == -1 .. (MaxInputs + 1)
Starts == {{}, {1}}
Ends == {{}, {2}}

\* GET /api/sensors/{sensor_id}/readings
get_sensor_readings(id, limit, start_time, end_time) ==
    /\ Running
    /\ query = NoQuery
    /\ query' = Query(id, limit, start_time, end_time)
    /\ \E s \in OrderByDesc(Matching(id, start_time, end_time)) : result' = Limit(s, limit)
    /\ UNCHANGED <<sensors, readings, alerts, now, pc, sensor_data, reading, alert,
                   recent_alert, printed, returned, response, mqtt_msg, log, ninputs,
                   mqtt_client>>

\* The response has been sent.
SendReadings ==
    /\ query # NoQuery
    /\ query' = NoQuery
    /\ result' = <<>>
    /\ UNCHANGED <<sensors, readings, alerts, now, pc, sensor_data, reading, alert,
                   recent_alert, printed, returned, response, mqtt_msg, log, ninputs,
                   mqtt_client>>

\* ---------------------------------------------------- process_sensor_data
\* Mutant: the outer except re-raises after the rollback.
ReturnValue_Reraise(line) == IF line = "" THEN "None" ELSE "raised"

\* What the function gives its caller: it has no return statement and both
\* except clauses swallow the exception, so None on every path.
ReturnValue(line) == "None"

\* Normal end of the function (finally: db.close()).
Return(p) ==
    /\ pc' = [pc EXCEPT ![p] = "done"]
    /\ returned' = [returned EXCEPT ![p] = ReturnValue("")]

\* Where an exception raised while the reading is registered or appended
\* ends: the outer except (rollback, print), then finally.
StoreError(p, line) ==
    /\ pc' = [pc EXCEPT ![p] = "done"]
    /\ printed' = [printed EXCEPT ![p] = line]
    /\ log' = log \cup {line}
    /\ returned' = [returned EXCEPT ![p] = ReturnValue(line)]

\* Where an exception raised inside check_alert_conditions ends: the inner
\* except (print), then the end of the function.
AlertError(p, line) ==
    /\ pc' = [pc EXCEPT ![p] = "done"]
    /\ printed' = [printed EXCEPT ![p] = line]
    /\ log' = log \cup {line}
    /\ returned' = [returned EXCEPT ![p] = ReturnValue(line)]

\* Mutant: the reading is appended without the sensor being registered.
QuerySensor_NoRegister(p) ==
    /\ pc[p] = "query_sensor"
    /\ pc' = [pc EXCEPT ![p] = "add_reading"]
    /\ UNCHANGED <<sensors, readings, alerts, now, sensor_data, reading, alert,
                   recent_alert, printed, returned, response, mqtt_msg, log, ninputs,
                   mqtt_client, query, result>>

\* Mutant: a row that is found is brought up to date with the dictionary.
QuerySensor_Upsert(p) ==
    LET s == FindSensor(sensor_data[p].sensor_id)
    IN  /\ pc[p] = "query_sensor"
        /\ pc' = [pc EXCEPT ![p] = IF s = 0 THEN "add_sensor" ELSE "add_reading"]
        /\ sensors' = IF s = 0 THEN sensors
                      ELSE [sensors EXCEPT ![s] = [sensor_id |-> sensor_data[p].sensor_id,
                                                   name |-> sensor_data[p].name,
                                                   location |-> sensor_data[p].location,
                                                   sensor_type |-> sensor_data[p].sensor_type]]
        /\ UNCHANGED <<readings, alerts, now, sensor_data, reading, alert,
                       recent_alert, printed, returned, response, mqtt_msg, log, ninputs,
                       mqtt_client, query, result>>

\* db.query(Sensor).filter(...).first()
QuerySensor(p) ==
    /\ pc[p] = "query_sensor"
    /\ pc' = [pc EXCEPT ![p] =
                IF FindSensor(sensor_data[p].sensor_id) = 0 THEN "add_sensor" ELSE "add_reading"]
    /\ UNCHANGED <<sensors, readings, alerts, now, sensor_data, reading, alert,
                   recent_alert, printed, returned, response, mqtt_msg, log, ninputs,
                   mqtt_client, query, result>>

SensorRow(d) ==
    [sensor_id |-> d.sensor_id, name |-> d.name, location |-> d.location,
     sensor_type |-> d.sensor_type]

\* db.add(sensor); db.commit(); db.refresh(sensor)
AddSensor(p) ==
    /\ pc[p] = "add_sensor"
    /\ IF UniqueViolation(sensor_data[p].sensor_id)
       THEN /\ StoreError(p, ErrStoreIntegrity)
            /\ UNCHANGED sensors
       ELSE /\ sensors' = Append(sensors, SensorRow(sensor_data[p]))
            /\ pc' = [pc EXCEPT ![p] = "add_reading"]
            /\ UNCHANGED <<printed, log, returned>>
    /\ UNCHANGED <<readings, alerts, now, sensor_data, reading, alert,
                   recent_alert, response, mqtt_msg, ninputs,
                   mqtt_client, query, result>>

ReadingRow(d) ==
    [sensor_id |-> d.sensor_id, timestamp |-> d.timestamp, value |-> d.value,
     unit |-> d.unit]

\* Mutant: a reading whose sensor and timestamp are already stored is
\* merged with the stored one.
AddReading_Merge(p) ==
    LET row == [sensor_id |-> sensor_data[p].sensor_id,
                timestamp |-> sensor_data[p].timestamp,
                value |-> sensor_data[p].value, unit |-> sensor_data[p].unit]
        same == {i \in 1..Len(readings) :
                    /\ readings[i].sensor_id = row.sensor_id
                    /\ readings[i].timestamp = row.timestamp}
    IN  /\ pc[p] = "add_reading"
        /\ IF same = {}
           THEN /\ readings' = Append(readings, row)
                /\ reading' = [reading EXCEPT ![p] = Len(readings) + 1]
           ELSE /\ readings' = [i \in 1..Len(readings) |->
                                    IF i \in same THEN row ELSE readings[i]]
                /\ reading' = [reading EXCEPT ![p] = CHOOSE i \in same : TRUE]
        /\ pc' = [pc EXCEPT ![p] = "check_alert"]
        /\ UNCHANGED <<sensors, alerts, now, sensor_data, alert, recent_alert,
                       printed, returned, response, mqtt_msg, log, ninputs,
                       mqtt_client, query, result>>

\* db.add(reading); db.commit()
AddReading(p) ==
    /\ pc[p] = "add_reading"
    /\ readings' = Append(readings, ReadingRow(sensor_data[p]))
    /\ reading' = [reading EXCEPT ![p] = Len(readings) + 1]
    /\ pc' = [pc EXCEPT ![p] = "check_alert"]
    /\ UNCHANGED <<sensors, alerts, now, sensor_data, alert, recent_alert,
                   printed, returned, response, mqtt_msg, log, ninputs,
                   mqtt_client, query, result>>

\* check_alert_conditions(db, sensor_data) and, when it calls create_alert,
\* the recent-alert query of create_alert (one_hour_ago = utcnow() - 1 h).
CheckAlert(p) ==
    LET d == sensor_data[p]
        c == check_alert_conditions(d.sensor_type, d.value)
    IN  /\ pc[p] = "check_alert"
        /\ IF ~c.fire
           THEN /\ Return(p)
                /\ UNCHANGED recent_alert
           ELSE IF RecentAlert(d.sensor_id, now - Hour)
           THEN /\ Return(p)
                /\ recent_alert' = [recent_alert EXCEPT ![p] = "found"]
           ELSE /\ pc' = [pc EXCEPT ![p] = "add_alert"]
                /\ recent_alert' = [recent_alert EXCEPT ![p] = "none"]
                /\ UNCHANGED returned
        /\ UNCHANGED <<sensors, readings, alerts, now, sensor_data, reading, alert,
                       printed, response, mqtt_msg, log, ninputs,
                   mqtt_client, query, result>>

\* The Alert create_alert builds: timestamp is a second utcnow().
AlertRow(d, c, t) ==
    [sensor_id |-> d.sensor_id, timestamp |-> t, value |-> d.value,
     threshold |-> c.threshold, message |-> c.message, was_notified |-> 0]

\* Mutant: the insert is made only if the recent-alert query, run again in
\* the same step, still finds nothing (check and insert are one step).
AddAlert_Atomic(p) ==
    LET d == sensor_data[p]
        c == check_alert_conditions(d.sensor_type, d.value)
    IN  /\ pc[p] = "add_alert"
        /\ IF RecentAlert(d.sensor_id, now - Hour)
           THEN /\ Return(p)
                /\ recent_alert' = [recent_alert EXCEPT ![p] = "found"]
                /\ UNCHANGED <<alerts, alert>>
           ELSE /\ alerts' = Append(alerts, [sensor_id |-> d.sensor_id, timestamp |-> now,
                                              value |-> d.value, threshold |-> c.threshold,
                                              message |-> c.message, was_notified |-> 0])
                /\ alert' = [alert EXCEPT ![p] = Len(alerts) + 1]
                /\ pc' = [pc EXCEPT ![p] = "notify"]
                /\ UNCHANGED <<recent_alert, returned>>
        /\ UNCHANGED <<sensors, readings, now, sensor_data, reading,
                       printed, response, mqtt_msg, log, ninputs,
                       mqtt_client, query, result>>

\* db.add(alert); db.commit()
AddAlert(p) ==
    LET d == sensor_data[p]
        c == check_alert_conditions(d.sensor_type, d.value)
    IN  /\ pc[p] = "add_alert"
        /\ alerts' = Append(alerts, AlertRow(d, c, now))
        /\ alert' = [alert EXCEPT ![p] = Len(alerts) + 1]
        /\ pc' = [pc EXCEPT ![p] = "notify"]
        /\ UNCHANGED <<sensors, readings, now, sensor_data, reading, recent_alert,
                       printed, returned, response, mqtt_msg, log, ninputs,
                   mqtt_client, query, result>>

\* Mutant: the flag is not set before the second commit.
MarkNotified_Unset(row) == row

\* alert.was_notified = 1; db.commit(); then the function returns
MarkNotified(row) == [row EXCEPT !.was_notified = 1]

Notify(p) ==
    /\ pc[p] = "notify"
    /\ alerts' = [alerts EXCEPT ![alert[p]] = MarkNotified(alerts[alert[p]])]
    /\ Return(p)
    /\ UNCHANGED <<sensors, readings, now, sensor_data, reading, alert, recent_alert,
                   printed, response, mqtt_msg, log, ninputs,
                   mqtt_client, query, result>>

\* ---------------------------------------------------------- storage faults
\* The database is unavailable for one call: the query or commit raises
\* OperationalError instead of acting.
FailQuerySensor(p) ==
    /\ pc[p] = "query_sensor"
    /\ StoreError(p, ErrStoreOperational)
    /\ UNCHANGED <<sensors, readings, alerts, now, sensor_data, reading, alert,
                   recent_alert, response, mqtt_msg, ninputs,
                   mqtt_client, query, result>>

FailAddSensor(p) ==
    /\ pc[p] = "add_sensor"
    /\ StoreError(p, ErrStoreOperational)
    /\ UNCHANGED <<sensors, readings, alerts, now, sensor_data, reading, alert,
                   recent_alert, response, mqtt_msg, ninputs,
                   mqtt_client, query, result>>

\* Mutant: the failed append is printed and the function carries on.
FailAddReading_CarryOn(p) ==
    /\ pc[p] = "add_reading"
    /\ pc' = [pc EXCEPT ![p] = "check_alert"]
    /\ printed' = [printed EXCEPT ![p] = ErrStoreOperational]
    /\ log' = log \cup {ErrStoreOperational}
    /\ UNCHANGED <<sensors, readings, alerts, now, sensor_data, reading, alert,
                   recent_alert, returned, response, mqtt_msg, ninputs,
                   mqtt_client, query, result>>

\* Mutant: the rollback also takes back the Sensor row of this sensor_id.
FailAddReading_UndoSensor(p) ==
    /\ pc[p] = "add_reading"
    /\ StoreError(p, ErrStoreOperational)
    /\ sensors' = SelectSeq(sensors, LAMBDA row : row.sensor_id # sensor_data[p].sensor_id)
    /\ UNCHANGED <<readings, alerts, now, sensor_data, reading, alert,
                   recent_alert, response, mqtt_msg, ninputs,
                   mqtt_client, query, result>>

FailAddReading(p) ==
    /\ pc[p] = "add_reading"
    /\ StoreError(p, ErrStoreOperational)
    /\ UNCHANGED <<sensors, readings, alerts, now, sensor_data, reading, alert,
                   recent_alert, response, mqtt_msg, ninputs,
                   mqtt_client, query, result>>

\* create_alert's query raises (it runs only when a threshold is crossed)
FailQueryAlert(p) ==
    /\ pc[p] = "check_alert"
    /\ check_alert_conditions(sensor_data[p].sensor_type, sensor_data[p].value).fire
    /\ AlertError(p, ErrAlert)
    /\ UNCHANGED <<sensors, readings, alerts, now, sensor_data, reading, alert,
                   recent_alert, response, mqtt_msg, ninputs,
                   mqtt_client, query, result>>

\* Mutant: create_alert's exception is not caught by the inner try and
\* reaches the outer except.
FailAddAlert_Propagates(p) ==
    /\ pc[p] = "add_alert"
    /\ StoreError(p, ErrStoreOperational)
    /\ UNCHANGED <<sensors, readings, alerts, now, sensor_data, reading, alert,
                   recent_alert, response, mqtt_msg, ninputs,
                   mqtt_client, query, result>>

FailAddAlert(p) ==
    /\ pc[p] = "add_alert"
    /\ AlertError(p, ErrAlert)
    /\ UNCHANGED <<sensors, readings, alerts, now, sensor_data, reading, alert,
                   recent_alert, response, mqtt_msg, ninputs,
                   mqtt_client, query, result>>

\* the second commit of create_alert raises: the row stays as committed
FailNotify(p) ==
    /\ pc[p] = "notify"
    /\ AlertError(p, ErrAlert)
    /\ UNCHANGED <<sensors, readings, alerts, now, sensor_data, reading, alert,
                   recent_alert, response, mqtt_msg, ninputs,
                   mqtt_client, query, result>>

\* The handler has returned and its thread is free again: the locals of the
\* call are gone.
Release(p) ==
    /\ pc[p] = "done"
    /\ pc' = [pc EXCEPT ![p] = "idle"]
    /\ sensor_data' = [sensor_data EXCEPT ![p] = NoData]
    /\ reading' = [reading EXCEPT ![p] = 0]
    /\ alert' = [alert EXCEPT ![p] = 0]
    /\ recent_alert' = [recent_alert EXCEPT ![p] = "unset"]
    /\ printed' = [printed EXCEPT ![p] = ""]
    /\ returned' = [returned EXCEPT ![p] = ""]
    /\ response' = [w \in Workers |-> IF w = p THEN "" ELSE response[w]]
    /\ mqtt_msg' = IF p = MqttThread THEN NoMessage ELSE mqtt_msg
    /\ UNCHANGED <<sensors, readings, alerts, now, log, ninputs,
                   mqtt_client, query, result>>

\* --------------------------------------------------------- specifications
Step(p) ==
    \/ QuerySensor(p)
    \/ AddSensor(p)
    \/ AddReading(p)
    \/ CheckAlert(p)
    \/ AddAlert(p)
    \/ Notify(p)
    \/ Release(p)

Fault(p) ==
    \/ FailQuerySensor(p)
    \/ FailAddSensor(p)
    \/ FailAddReading(p)
    \/ FailQueryAlert(p)
    \/ FailAddAlert(p)
    \/ FailNotify(p)

\* Readings handled one at a time: a new request or message arrives only
\* when no handler is running.
Quiescent == \A p \in Procs : pc[p] = "idle"

\* Handlers that overlap do so within one clock value (a handler takes
\* milliseconds, the clock counts half hours): time passes between bursts.
TickIdle == Quiescent /\ Tick

\* The running system: the MQTT loop thread and the HTTP workers interleave,
\* and any database call may fail.
Next ==
    \/ TickIdle
    \/ \E p \in Workers, body \in HttpBodies : add_sensor_data(p, body)
    \/ \E p \in Workers : RunBackgroundTask(p)
    \/ \E msg \in Messages : on_message(msg)
    \/ \E p \in Procs : Step(p)
    \/ \E p \in Procs : Fault(p)

Spec == Init /\ [][Next]_vars

\* One burst of requests and messages (the clock stands still) with the
\* scheduling of background tasks: the server runs every task it queued
\* once the response is sent.
NextBurst ==
    \/ \E p \in Workers, body \in HttpBodies : add_sensor_data(p, body)
    \/ \E p \in Workers : RunBackgroundTask(p)
    \/ \E msg \in GoodMessages : on_message(msg)
    \/ \E p \in Procs : Step(p)
    \/ \E p \in Procs : Fault(p)

SpecFair ==
    Init /\ [][NextBurst]_vars /\ \A p \in Workers : WF_vars(RunBackgroundTask(p))

\* The read path next to the write path: readings of two sensors arrive by
\* HTTP one at a time while the clock runs, and GET requests are answered
\* between any two steps.
QueryBodies == {HttpBody(TempId, 35, "C"), HttpBody(HumId, 50, "")}

NextQuery ==
    \/ Tick
    \/ \E p \in Workers, body \in QueryBodies : Quiescent /\ add_sensor_data(p, body)
    \/ \E p \in Workers : RunBackgroundTask(p)
    \/ \E p \in Workers : Step(p)
    \/ \E id \in {TempId, HumId}, limit \in Limits, st \in Starts, en \in Ends :
            get_sensor_readings(id, limit, st, en)
    \/ SendReadings

SpecQuery == Init /\ [][NextQuery]_vars

\* The process from its start: startup_event with the broker reachable or
\* not, then requests and messages on an available database.  The same
\* sensors are named by either transport, one of them with a type of two
\* words.
BootBodies == HttpBodies \cup {HttpBody(OutdoorId, 35, "C")}
BootMessages ==
    GoodMessages \cup {Message(Topic(OutdoorType, <<"den">>), JsonObject(TRUE, 35, TRUE, "C"))}

NextBoot ==
    \/ \E reachable \in BOOLEAN : startup_event(reachable)
    \/ TickIdle
    \/ \E p \in Workers, body \in BootBodies : add_sensor_data(p, body)
    \/ \E p \in Workers : RunBackgroundTask(p)
    \/ \E msg \in BootMessages : on_message(msg)
    \/ \E p \in Procs : Step(p)

SpecBoot == InitBoot /\ [][NextBoot]_vars

\* Readings handled one at a time on an available database; the clock may
\* advance between any two steps of a handler.
NextSeq ==
    \/ Tick
    \/ \E p \in Workers, body \in SeqHttpBodies : Quiescent /\ add_sensor_data(p, body)
    \/ \E p \in Workers : RunBackgroundTask(p)
    \/ \E msg \in SeqMessages : Quiescent /\ on_message(msg)
    \/ \E p \in Procs : Step(p)

SpecSeq == Init /\ [][NextSeq]_vars

\* ------------------------------------------------------------------ claims
\* What the claims say of a sensor_data dictionary d, in their own words.
KnownType(d) == d.sensor_type \in {<<"temperature">>, <<"humidity">>}
MinOf(d) == IF d.sensor_type = <<"temperature">> THEN TEMPERATURE_MIN ELSE HUMIDITY_MIN
MaxOf(d) == IF d.sensor_type = <<"temperature">> THEN TEMPERATURE_MAX ELSE HUMIDITY_MAX
IsLow(d) == KnownType(d) /\ d.value < MinOf(d)
IsHigh(d) == KnownType(d) /\ d.value > MaxOf(d)
AlertWorthy(d) == IsLow(d) \/ IsHigh(d)
InRange(d) == KnownType(d) /\ MinOf(d) <= d.value /\ d.value <= MaxOf(d)

\* The Alerts of sensor id other than row k.
OtherAlerts(id, k) == {i \in 1..Len(alerts) : i # k /\ alerts[i].sensor_id = id}

\* The reading of thread p's call is stored as it was handed in.
ReadingStored(p) ==
    /\ reading[p] \in 1..Len(readings)
    /\ readings[reading[p]].sensor_id = sensor_data[p].sensor_id
    /\ readings[reading[p]].value = sensor_data[p].value
    /\ readings[reading[p]].unit = sensor_data[p].unit
    /\ readings[reading[p]].timestamp = sensor_data[p].timestamp

\* C1: readings handled one at a time on an available database.  When the
\* handler of a reading of type temperature or humidity with value < min or
\* value > max has finished, and every other Alert of its sensor is at least
\* one cooldown older than the reading, the handler has stored an Alert of
\* that sensor with the reading's value, the crossed bound (min when low,
\* max when high) as threshold, a message stating "Low" or "High", the value
\* and the threshold, and was_notified = 1; it is the only Alert of the
\* sensor inside the window, and no step of a handler adds more than one
\* Alert row or adds one outside create_alert's insert.
C1_AlertAtDone ==
    \A p \in Procs :
        LET d == sensor_data[p]
            th == IF IsLow(d) THEN MinOf(d) ELSE MaxOf(d)
        IN  ( /\ pc[p] = "done"
              /\ AlertWorthy(d)
              /\ \A i \in OtherAlerts(d.sensor_id, alert[p]) :
                    alerts[i].timestamp <= d.timestamp - Hour )
            => /\ alert[p] \in 1..Len(alerts)
               /\ alerts[alert[p]].sensor_id = d.sensor_id
               /\ alerts[alert[p]].value = d.value
               /\ alerts[alert[p]].threshold = th
               /\ alerts[alert[p]].message.direction = (IF IsLow(d) THEN "Low" ELSE "High")
               /\ alerts[alert[p]].message.value = d.value
               /\ alerts[alert[p]].message.threshold = th
               /\ alerts[alert[p]].timestamp >= d.timestamp
               /\ alerts[alert[p]].was_notified = 1
               /\ ReadingStored(p)

C1_OneRowPerInsert ==
    /\ Len(alerts') <= Len(alerts) + 1
    /\ Len(alerts') = Len(alerts) + 1
        => \E p \in Procs : pc[p] = "add_alert" /\ pc'[p] = "notify"

\* C1: the Alert of an alert-worthy reading is stored with its fields at the
\* end of the handler, and Alert rows come one per insert of create_alert.
C1_ExactlyOneAlert == [](C1_AlertAtDone) /\ [][C1_OneRowPerInsert]_vars

\* C1 witness: temperature_den 35 has been handled and its Alert with
\* threshold 30, direction High and was_notified = 1 is stored.
C1_Witness ==
    \E p \in Procs :
        /\ pc[p] = "done"
        /\ sensor_data[p].sensor_id = TempId
        /\ sensor_data[p].value = 35
        /\ alert[p] # 0
        /\ alerts[alert[p]].threshold = TEMPERATURE_MAX
        /\ alerts[alert[p]].message.direction = "High"
        /\ alerts[alert[p]].was_notified = 1
        /\ Len(readings) = 1

\* C2: readings handled one at a time on an available database.  While the
\* handler of a reading with min <= value <= max for its type (the bounds
\* included) runs, no step changes the alerts table, and when it has
\* finished its reading is stored and it has created no Alert.
C2_NoAlertStep ==
    (\E p \in Procs : pc[p] # "idle" /\ InRange(sensor_data[p])) => alerts' = alerts

C2_StoredAtDone ==
    \A p \in Procs :
        (pc[p] = "done" /\ InRange(sensor_data[p])) => (ReadingStored(p) /\ alert[p] = 0)

\* C2: an in-range reading (bounds included) is stored and its handler
\* leaves the alerts table as it was.
C2_InRangeNoAlert == [](C2_StoredAtDone) /\ [][C2_NoAlertStep]_vars

\* C2 witness: a reading exactly at the maximum (temperature 30) has been
\* handled, is stored, and there is no Alert.
C2_Witness ==
    \E p \in Procs :
        /\ pc[p] = "done"
        /\ sensor_data[p].sensor_type = <<"temperature">>
        /\ sensor_data[p].value = TEMPERATURE_MAX
        /\ ReadingStored(p)
        /\ alerts = <<>>

\* C3: readings handled one at a time.  Any two Alerts of one sensor have
\* timestamps at least one cooldown (1 hour) apart; and a handler that
\* finishes while another Alert of its sensor is less than one cooldown old
\* (the Alert of an earlier reading) has created no Alert.
C3_CooldownApart ==
    /\ \A i, j \in 1..Len(alerts) :
            (i < j /\ alerts[i].sensor_id = alerts[j].sensor_id)
            => \/ alerts[j].timestamp - alerts[i].timestamp >= Hour
               \/ alerts[i].timestamp - alerts[j].timestamp >= Hour
    /\ \A p \in Procs :
            ( /\ pc[p] = "done"
              /\ \E i \in OtherAlerts(sensor_data[p].sensor_id, alert[p]) :
                    alerts[i].timestamp > now - Hour )
            => alert[p] = 0

\* C3 witness: a second alert-worthy reading of the sensor, taken less than
\* one cooldown after the first one's Alert, has been handled and suppressed.
C3_Witness ==
    \E p \in Procs :
        /\ pc[p] = "done"
        /\ AlertWorthy(sensor_data[p])
        /\ recent_alert[p] = "found"
        /\ alert[p] = 0
        /\ Len(readings) = 2
        /\ Len(alerts) = 1
        /\ alerts[1].sensor_id = sensor_data[p].sensor_id
        /\ sensor_data[p].timestamp - alerts[1].timestamp < Hour
        /\ sensor_data[p].timestamp > alerts[1].timestamp

\* C4: readings handled one at a time on an available database.  When the
\* handler of an alert-worthy reading has finished, the sensor has an Alert
\* of an earlier reading, and every such Alert is more than one cooldown
\* older than the reading, then this handler has stored an Alert too: the
\* sensor has two Alerts, one per reading.
C4_BothAlerts ==
    \A p \in Procs :
        LET d == sensor_data[p]
            earlier == OtherAlerts(d.sensor_id, alert[p])
        IN  ( /\ pc[p] = "done"
              /\ AlertWorthy(d)
              /\ earlier # {}
              /\ \A i \in earlier : d.timestamp - alerts[i].timestamp > Hour )
            => /\ alert[p] \in 1..Len(alerts)
               /\ alert[p] \notin earlier
               /\ alerts[alert[p]].sensor_id = d.sensor_id
               /\ alerts[alert[p]].value = d.value
               /\ Cardinality(earlier \cup {alert[p]}) >= 2

\* C4 witness: two alert-worthy readings of temperature_den more than one
\* cooldown apart have been handled and the sensor has two Alerts.
C4_Witness ==
    \E p \in Procs :
        /\ pc[p] = "done"
        /\ Len(readings) = 2
        /\ readings[1].sensor_id = readings[2].sensor_id
        /\ readings[2].timestamp - readings[1].timestamp > Hour
        /\ Len(alerts) = 2
        /\ alerts[1].sensor_id = readings[1].sensor_id
        /\ alerts[2].sensor_id = readings[1].sensor_id
        /\ alert[p] = 2

\* C5: in every reachable state of the concurrent system no two Sensor rows
\* have the same sensor_id, and a thread whose registry step is over (it
\* found the row, inserted it, or its insert was rejected by the UNIQUE
\* constraint) has exactly one row for its sensor_id.
RegistryOver(p) ==
    \/ pc[p] \in {"add_reading", "check_alert", "add_alert", "notify"}
    \/ pc[p] = "done" /\ (reading[p] # 0 \/ printed[p] = ErrStoreIntegrity)

RowsOf(id) == {i \in 1..Len(sensors) : sensors[i].sensor_id = id}

C5_OneSensorRow ==
    /\ \A i, j \in 1..Len(sensors) : sensors[i].sensor_id = sensors[j].sensor_id => i = j
    /\ \A p \in Procs : RegistryOver(p) => Cardinality(RowsOf(sensor_data[p].sensor_id)) = 1

\* C5 witness: two handlers both found temperature_den missing, one inserted
\* it and the other's insert was rejected; there is one row.
C5_Witness ==
    \E p, q \in Procs :
        /\ p # q
        /\ pc[p] = "done"
        /\ printed[p] = ErrStoreIntegrity
        /\ sensor_data[q].sensor_id = sensor_data[p].sensor_id
        /\ pc[q] \in {"add_reading", "check_alert", "add_alert", "notify", "done"}
        /\ Cardinality(RowsOf(sensor_data[p].sensor_id)) = 1

\* C6: when the commit of the reading fails, the handler goes straight to
\* its end: that step leaves readings and alerts as they were, the handler
\* has created no Alert, and it never stands in the alert stage or holds an
\* Alert without its reading being stored.
AlertStage == {"check_alert", "add_alert", "notify"}

C6_AbortStep ==
    \A p \in Procs :
        (pc[p] = "add_reading" /\ pc'[p] # "add_reading" /\ reading'[p] = 0)
        => /\ pc'[p] = "done"
           /\ printed'[p] = ErrStoreOperational
           /\ readings' = readings
           /\ alerts' = alerts
           /\ alert'[p] = 0
           /\ recent_alert'[p] = "unset"

C6_NoAlertWithoutReading ==
    \A p \in Procs :
        /\ pc[p] \in AlertStage => ReadingStored(p)
        /\ (alert[p] # 0 \/ recent_alert[p] # "unset") => ReadingStored(p)

\* C6: a failed append of the reading ends the handler with no reading, no
\* alert evaluation and no Alert.
C6_AppendFailureAborts == [](C6_NoAlertWithoutReading) /\ [][C6_AbortStep]_vars

\* C6 witness: the only handler so far registered its sensor, the append of
\* its alert-worthy reading failed, and neither a reading nor an Alert is
\* stored.
C6_Witness ==
    \E p \in Procs :
        /\ pc[p] = "done"
        /\ printed[p] = ErrStoreOperational
        /\ ninputs = 1
        /\ Len(sensors) = 1
        /\ AlertWorthy(sensor_data[p])
        /\ readings = <<>>
        /\ alerts = <<>>

\* C7: a step of the alert stage never changes the sensors or readings
\* tables and never ends in the outer "Error storing sensor data" handler;
\* no step removes or changes a stored reading; and a handler that ended
\* with "Error checking alert conditions" has its reading stored.
C7_AlertStageStep ==
    /\ \A p \in Procs :
            (pc[p] \in AlertStage /\ pc'[p] # pc[p])
            => /\ readings' = readings
               /\ sensors' = sensors
               /\ printed'[p] \notin {ErrStoreIntegrity, ErrStoreOperational}
    /\ Len(readings') >= Len(readings)
    /\ \A i \in 1..Len(readings) : readings'[i] = readings[i]

C7_ReadingKept ==
    \A p \in Procs : (pc[p] = "done" /\ printed[p] = ErrAlert) => ReadingStored(p)

\* C7: a failure in the alert stage keeps the stored reading and does not
\* end in the storage-error handler.
C7_AlertFailureContained == [](C7_ReadingKept) /\ [][C7_AlertStageStep]_vars

\* C7 witness: a handler's Alert insert failed; it ended with the alert
\* error line, its reading is stored and no Alert is.
C7_Witness ==
    \E p \in Procs :
        /\ pc[p] = "done"
        /\ printed[p] = ErrAlert
        /\ recent_alert[p] = "none"
        /\ alert[p] = 0
        /\ ReadingStored(p)
        /\ alerts = <<>>

C9_Original == \A i \in 1..Len(alerts) : alerts[i].was_notified = 1

\* C9 amended: an Alert with was_notified = 0 is stored only while the
\* handler that inserted it stands between its two commits, or after an
\* alert-stage error was printed; a handler leaves that place either with
\* its Alert's flag set or through the alert-error handler (the second
\* commit failed and the Alert stays unsent); was_notified never goes from
\* 1 back to 0 and no Alert row is removed.
C9_UnsentOnlyInPass ==
    \A i \in 1..Len(alerts) :
        alerts[i].was_notified = 0
        => \/ \E p \in Procs : pc[p] = "notify" /\ alert[p] = i
           \/ ErrAlert \in log

C9_FlagStays ==
    /\ \A p \in Procs :
            (pc[p] = "notify" /\ pc'[p] # "notify")
            => \/ alerts'[alert[p]].was_notified = 1
               \/ printed'[p] = ErrAlert /\ alerts'[alert[p]].was_notified = 0
    /\ Len(alerts') >= Len(alerts)
    /\ \A i \in 1..Len(alerts) : alerts[i].was_notified = 1 => alerts'[i].was_notified = 1

\* C9 amended: was_notified = 0 only between the two commits of the pass or
\* after a failed flag update, and never 1 -> 0.
C9_NotifiedFlag == [](C9_UnsentOnlyInPass) /\ [][C9_FlagStays]_vars

\* C9 witness: an Alert with was_notified = 0 is in the table while another
\* thread is about to run create_alert's query on it.
C9_Witness ==
    \E p, q \in Procs :
        /\ p # q
        /\ pc[p] = "notify"
        /\ alerts[alert[p]].was_notified = 0
        /\ pc[q] = "check_alert"
        /\ log = {}

\* C10: the callback's step on a message whose topic has fewer than 3
\* segments or whose payload is not valid JSON leaves the three tables
\* unchanged and returns (the thread is not left inside the handler or
\* dead), so the thread takes the next message.
Malformed(msg) == Len(msg.topic) < 3 \/ msg.payload.json = "invalid"

C10_DropStep ==
    (pc[MqttThread] = "idle" /\ pc'[MqttThread] # "idle" /\ Malformed(mqtt_msg'))
    => /\ sensors' = sensors
       /\ readings' = readings
       /\ alerts' = alerts
       /\ pc'[MqttThread] = "done"

C10_Returned ==
    /\ pc[MqttThread] \in {"idle", "query_sensor", "add_sensor", "add_reading",
                            "check_alert", "add_alert", "notify", "done"}
    /\ (pc[MqttThread] # "idle" /\ Malformed(mqtt_msg))
        => (pc[MqttThread] = "done" /\ reading[MqttThread] = 0 /\ alert[MqttThread] = 0)

\* C10: a message with a short topic or invalid JSON is dropped without a
\* change to the tables and the callback returns.
C10_MalformedDropped == [](C10_Returned) /\ [][C10_DropStep]_vars

\* C10 witness: after a message was dropped with the error line, a
\* well-formed message has been handled and its reading is stored.
C10_Witness ==
    /\ ErrMqtt \in log
    /\ pc[MqttThread] = "done"
    /\ ~Malformed(mqtt_msg)
    /\ ReadingStored(MqttThread)
    /\ Len(readings) = 1
    /\ ninputs = 2
    /\ \A w \in Workers : pc[w] = "idle" /\ response[w] = ""

\* A message with a topic of three segments and a JSON object as payload
\* that has no "value" key.
MissingValue(msg) ==
    /\ Len(msg.topic) >= 3
    /\ msg.payload.json = "object"
    /\ ~msg.payload.has_value

\* C11: a bus message with a well-formed topic and a valid JSON payload
\* without the 'value' field is dropped: when the callback has returned, it
\* has stored no Reading and created no Alert, and the tables are empty if it
\* was the first input.
C11_MissingValueDropped ==
    (pc[MqttThread] = "done" /\ MissingValue(mqtt_msg))
    => /\ reading[MqttThread] = 0
       /\ alert[MqttThread] = 0
       /\ ninputs = 1 => (readings = <<>> /\ alerts = <<>>)

\* What process_sensor_data makes of a dictionary d apart from the store:
\* the Reading's sensor, value and unit, and the create_alert call.
GatewayView(d) ==
    [sensor_id |-> d.sensor_id, value |-> d.value, unit |-> d.unit,
     candidate |-> check_alert_conditions(d.sensor_type, d.value)]

\* The HTTP request that names the sensor <type>_<location> of a message and
\* carries its value and unit, and the dictionary add_sensor_data builds for
\* it in the current state of the store.
HttpTwin(msg) ==
    HttpSensorData(HttpBody(msg.topic[2] \o msg.topic[3], msg.payload.value, msg.payload.unit),
                   FindSensor(msg.topic[2] \o msg.topic[3]))

\* The messages that name the sensor, value and unit of an HTTP body.
BusTwins(body) ==
    {msg \in Messages :
        /\ Len(msg.topic) >= 3
        /\ msg.topic[2] \o msg.topic[3] = body.sensor_id
        /\ msg.payload.json = "object"
        /\ msg.payload.has_value /\ msg.payload.value = body.value
        /\ msg.payload.has_unit /\ msg.payload.unit = body.unit}

C12_ArrivalStep ==
    /\ (pc[MqttThread] = "idle" /\ pc'[MqttThread] = "query_sensor"
            /\ mqtt_msg'.payload.has_value /\ mqtt_msg'.payload.has_unit)
        => GatewayView(sensor_data'[MqttThread]) = GatewayView(HttpTwin(mqtt_msg'))
    /\ \A p \in Workers :
            (pc[p] = "idle" /\ pc'[p] = "queued")
            => \A msg \in BusTwins([sensor_id |-> sensor_data'[p].sensor_id,
                                     value |-> sensor_data'[p].value,
                                     unit |-> sensor_data'[p].unit]) :
                    GatewayView(ParseMessage(msg).data) = GatewayView(sensor_data'[p])

C12_SameOutcome ==
    \A p \in Procs :
        (pc[p] = "done" /\ printed[p] = "" /\ sensor_data[p] # NoData)
        => /\ ReadingStored(p)
           /\ alert[p] # 0
                => /\ GatewayView(sensor_data[p]).candidate.fire
                   /\ alerts[alert[p]].sensor_id = sensor_data[p].sensor_id
                   /\ alerts[alert[p]].value = sensor_data[p].value
                   /\ alerts[alert[p]].threshold = GatewayView(sensor_data[p]).candidate.threshold
           /\ (alert[p] = 0 /\ recent_alert[p] # "found")
                => ~GatewayView(sensor_data[p]).candidate.fire

\* C12: a reading that arrives by bus message for sensor <type>_<location>
\* and the same identifier, value and unit arriving by HTTP, in the same state
\* of the store, hand process_sensor_data dictionaries with the same sensor,
\* value, unit and the same create_alert call; and whichever thread runs
\* process_sensor_data, the stored Reading and the Alert are the ones of that
\* dictionary.
C12_SameGateway == [](C12_SameOutcome) /\ [][C12_ArrivalStep]_vars

\* C13: a worker that accepted a request has answered "success", and the
\* step that accepts it touches no table: nothing of the reading is ingested
\* when the answer is given.
C13_Answered ==
    \A p \in Workers :
        /\ pc[p] # "idle" => response[p] = "success"
        /\ pc[p] = "queued" => (reading[p] = 0 /\ alert[p] = 0 /\ returned[p] = "")

\* C13: process_sensor_data is entered for a request only from the queue,
\* with the dictionary built for that request, a queued task leaves the
\* queue only by being run, and a request is queued only on arrival.
C13_OnceStep ==
    \A p \in Workers :
        /\ (pc[p] = "idle" /\ pc'[p] # "idle")
            => /\ pc'[p] = "queued"
               /\ response'[p] = "success"
               /\ <<sensors, readings, alerts>>' = <<sensors, readings, alerts>>
        /\ (pc[p] = "queued" /\ pc'[p] # "queued")
            => (pc'[p] = "query_sensor" /\ sensor_data'[p] = sensor_data[p])
        /\ (pc[p] # "query_sensor" /\ pc'[p] = "query_sensor") => pc[p] = "queued"
        /\ (pc[p] # "queued" /\ pc'[p] = "queued") => pc[p] = "idle"

\* C13: every request accepted by POST /api/sensors/data is answered
\* "success" before its ingestion runs, and when background tasks are
\* scheduled fairly process_sensor_data is eventually entered for it, once.
C13_AnsweredThenIngested ==
    /\ [](C13_Answered)
    /\ [][C13_OnceStep]_vars
    /\ \A p \in Workers : (pc[p] = "queued") ~> (pc[p] = "query_sensor")

\* C13 witness: the first request was answered "success" and its background
\* task has just entered process_sensor_data; no table has a row yet.
C13_Witness ==
    \E p \in Workers :
        /\ pc[p] = "query_sensor"
        /\ response[p] = "success"
        /\ sensor_data[p].sensor_id = TempId
        /\ ninputs = 1
        /\ sensors = <<>> /\ readings = <<>> /\ alerts = <<>>

\* The readings of the sensor a request q names that lie inside its window,
\* in the claim's words: start_time and end_time are optional and inclusive.
InWindow(q) ==
    {i \in 1..Len(readings) :
        /\ readings[i].sensor_id = q.sensor_id
        /\ (q.start_time = {} \/ \E t \in q.start_time : t <= readings[i].timestamp)
        /\ (q.end_time = {} \/ \E t \in q.end_time : readings[i].timestamp <= t)}

MinOfTwo(a, b) == IF a < b THEN a ELSE b

\* C14: the step that answers GET .../readings with a limit L >= 0 returns
\* min(L, n) distinct readings, n being the number of the sensor's readings
\* inside the window; each is a reading of that sensor inside the window,
\* they come in descending order of timestamp, no reading left out is newer
\* than one returned, and the step changes no table.
C14_QueryStep ==
    (query = NoQuery /\ query' # NoQuery /\ query'.limit >= 0)
    => LET q == query'
           r == result'
           n == Cardinality(InWindow(q))
       IN  /\ Len(r) = MinOfTwo(q.limit, n)
           /\ \A k \in 1..Len(r) : r[k] \in InWindow(q)
           /\ \A k, m \in 1..Len(r) : k < m =>
                    /\ r[k] # r[m]
                    /\ readings[r[k]].timestamp >= readings[r[m]].timestamp
           /\ \A i \in InWindow(q) :
                    (\A k \in 1..Len(r) : r[k] # i)
                    => \A k \in 1..Len(r) : readings[i].timestamp <= readings[r[k]].timestamp
           /\ <<sensors, readings, alerts>>' = <<sensors, readings, alerts>>

\* C14: every answer to GET .../readings with L >= 0 is the min(L, n) newest
\* readings of the sensor inside the window, newest first.
C14_LimitedDescending == [][C14_QueryStep]_vars

\* C14 witness: the sensor has two readings of different times inside the
\* window, a third reading belongs to nobody or is absent, the limit is 1 and
\* the one reading returned is the newer one.
C14_Witness ==
    /\ query # NoQuery
    /\ query.limit = 1
    /\ query.start_time = {1}
    /\ Cardinality(InWindow(query)) = 2
    /\ Len(result) = 1
    /\ \E i \in InWindow(query) : readings[i].timestamp < readings[result[1]].timestamp

\* C15: the startup never leaves the process without a server: after
\* startup_event the server is running, with the client or without it.
C15_StartupStep ==
    (mqtt_client = "unset" /\ mqtt_client' # "unset")
    => /\ mqtt_client' \in {"client", "none"}
       /\ <<sensors, readings, alerts>>' = <<sensors, readings, alerts>>

\* C15: in the running state without the client no message is ever handled
\* (the loop thread was not started), the warning was printed, a free worker
\* accepts the next request, and a request's handler ends with its reading
\* stored (or, having lost the race for the registration of a new sensor
\* against another request, with the UNIQUE violation).
C15_Degraded ==
    /\ mqtt_client \in {"unset", "client", "none"}
    /\ mqtt_client = "none"
        => /\ pc[MqttThread] = "idle"
           /\ mqtt_msg = NoMessage
           /\ {ErrBroker, WarnNoMqtt} \subseteq log
           /\ \A p \in Workers :
                /\ (pc[p] = "idle" /\ ninputs < MaxInputs)
                    => \A body \in BootBodies : ENABLED add_sensor_data(p, body)
                /\ pc[p] = "done"
                    => \/ ReadingStored(p) /\ printed[p] = ""
                       \/ /\ printed[p] = ErrStoreIntegrity
                          /\ FindSensor(sensor_data[p].sensor_id) # 0

\* C15: with the broker unreachable at startup the startup completes and
\* the server runs without bus ingestion, still ingesting HTTP readings.
C15_StartsWithoutBroker == [](C15_Degraded) /\ [][C15_StartupStep]_vars

\* C15 witness: the broker was unreachable, the server runs without the
\* client, and an alert-worthy reading sent by HTTP is stored with its Alert.
C15_Witness ==
    \E p \in Workers :
        /\ mqtt_client = "none"
        /\ pc[p] = "done"
        /\ ReadingStored(p)
        /\ AlertWorthy(sensor_data[p])
        /\ alert[p] # 0
        /\ Len(readings) = 1

\* A handler is running on a reading whose type is neither temperature nor
\* humidity.
UnknownType(p) == pc[p] # "idle" /\ sensor_data[p] # NoData /\ ~KnownType(sensor_data[p])

\* C16: the handler of a reading of unknown type never reaches create_alert,
\* and when it has finished the reading is stored, it created no Alert and
\* printed no error.
C16_NoCandidate ==
    \A p \in Procs :
        UnknownType(p)
        => /\ pc[p] \notin {"add_alert", "notify"}
           /\ alert[p] = 0
           /\ recent_alert[p] = "unset"
           /\ printed[p] = ""
           /\ pc[p] = "done" => (ReadingStored(p) /\ returned[p] = "None")

\* C16: no step taken while such a handler runs (readings are handled one
\* at a time) changes the alerts table.
C16_NoAlertStep ==
    (\E p \in Procs : UnknownType(p)) => alerts' = alerts

\* C16: a reading of a type other than temperature and humidity is stored,
\* creates no Alert and raises nothing in the alert stage, whatever its
\* value.
C16_UnknownTypeStored == [](C16_NoCandidate) /\ [][C16_NoAlertStep]_vars

\* C16 witness: pressure readings of 0 and of 85 have been handled, both
\* are stored and there is no Alert.
C16_Witness ==
    \E p \in Procs :
        /\ pc[p] = "done"
        /\ sensor_data[p].sensor_type = <<"pressure">>
        /\ ReadingStored(p)
        /\ Len(readings) = 2
        /\ {readings[1].value, readings[2].value} = {0, 85}
        /\ readings[1].sensor_id = readings[2].sensor_id
        /\ alerts = <<>>

\* C17: no step changes or removes a Sensor row; and when a handler finds
\* the row of its sensor_id, the row stays as it is whatever name, location
\* and sensor_type the handler's dictionary holds.
C17_RowsStay ==
    /\ Len(sensors') >= Len(sensors)
    /\ \A i \in 1..Len(sensors) : sensors'[i] = sensors[i]
    /\ \A p \in Procs :
            (pc[p] = "query_sensor" /\ FindSensor(sensor_data[p].sensor_id) # 0
                /\ pc'[p] # pc[p])
            => (pc'[p] = "add_reading" /\ sensors' = sensors)

\* C17: a handler whose registry step is over has a row for its sensor_id.
C17_RowOfSensor ==
    \A p \in Procs :
        pc[p] \in {"add_reading", "check_alert", "add_alert", "notify"}
        => FindSensor(sensor_data[p].sensor_id) # 0

\* C17: a Sensor row is never changed or deleted by an ingest, also when
\* the ingest carries other fallback metadata for the same identifier.
C17_SensorImmutable == [](C17_RowOfSensor) /\ [][C17_RowsStay]_vars

\* C17 witness: temperature_outdoor_den was registered by an HTTP request
\* (name the identifier, location "unknown", type "temperature"); a message
\* for the same identifier with another name, location and type has been
\* handled and stored, and the row is as it was.
C17_Witness ==
    LET d == sensor_data[MqttThread]
        s == FindSensor(d.sensor_id)
    IN  /\ pc[MqttThread] = "done"
        /\ ReadingStored(MqttThread)
        /\ s # 0
        /\ sensors[s].name # d.name
        /\ sensors[s].location # d.location
        /\ sensors[s].sensor_type # d.sensor_type
        /\ sensors[s].location = Text("raw", <<"unknown">>)
        /\ Len(sensors) = 1

\* C18: no step (of an ingest or of a query) removes or changes a stored
\* Reading or adds more than one; the step in which a handler's append
\* succeeds adds one row, the handler's reading, whatever is stored
\* already; and no other step adds a row.
C18_AppendStep ==
    /\ Len(readings') \in {Len(readings), Len(readings) + 1}
    /\ \A i \in 1..Len(readings) : readings'[i] = readings[i]
    /\ \A p \in Procs :
            (pc[p] = "add_reading" /\ pc'[p] = "check_alert")
            => /\ Len(readings') = Len(readings) + 1
               /\ reading'[p] = Len(readings')
               /\ readings'[reading'[p]].sensor_id = sensor_data[p].sensor_id
               /\ readings'[reading'[p]].timestamp = sensor_data[p].timestamp
               /\ readings'[reading'[p]].value = sensor_data[p].value
               /\ readings'[reading'[p]].unit = sensor_data[p].unit
    /\ Len(readings') = Len(readings) + 1
        => \E p \in Procs : pc[p] = "add_reading" /\ pc'[p] = "check_alert"
    /\ (query = NoQuery /\ query' # NoQuery) => readings' = readings

\* C18: the readings table is append-only, one row per successful append,
\* duplicates kept.
C18_AppendOnly == [][C18_AppendStep]_vars

\* C18 witness: two readings of one sensor with the same timestamp and
\* value are both stored, and a query has returned both.
C18_Witness ==
    /\ Len(readings) = 2
    /\ readings[1] = readings[2]
    /\ query # NoQuery
    /\ query.sensor_id = readings[1].sensor_id
    /\ Len(result) = 2
    /\ result[1] # result[2]

\* C19: the step in which a handler's append fails leaves the sensors table
\* as it is, with the row of the handler's sensor_id in it (the row the
\* handler found or registered itself), and stores nothing.
C19_FailedAppendStep ==
    \A p \in Procs :
        (pc[p] = "add_reading" /\ pc'[p] = "done")
        => /\ printed'[p] = ErrStoreOperational
           /\ sensors' = sensors
           /\ \E i \in 1..Len(sensors') : sensors'[i].sensor_id = sensor_data[p].sensor_id
           /\ readings' = readings

\* C19: a handler that finds the row of its sensor_id goes on to the
\* append without registering, and a handler that ends without an error
\* line has its reading stored.
C19_RowUsedStep ==
    \A p \in Procs :
        (pc[p] = "query_sensor" /\ FindSensor(sensor_data[p].sensor_id) # 0
            /\ pc'[p] \notin {"query_sensor", "done"})
        => (pc'[p] = "add_reading" /\ sensors' = sensors)

C19_LaterSucceeds ==
    \A p \in Procs :
        (pc[p] = "done" /\ printed[p] = "" /\ sensor_data[p] # NoData)
        => (ReadingStored(p) /\ FindSensor(sensor_data[p].sensor_id) # 0)

\* C19: a failed append does not undo the registration of the sensor, and
\* a later ingest for the identifier stores its reading using that row.
C19_RegistrationSurvives ==
    /\ [](C19_LaterSucceeds)
    /\ [][C19_FailedAppendStep /\ C19_RowUsedStep]_vars

\* C19 witness: of two inputs, the HTTP request registered temperature_den
\* (the row has the name the HTTP transport gives) and its append failed;
\* the message for the same identifier found that row and its reading is
\* the only one stored.
C19_Witness ==
    \E p \in Workers :
        /\ ninputs = 2
        /\ pc[p] = "done"
        /\ printed[p] = ErrStoreOperational
        /\ reading[p] = 0
        /\ Len(sensors) = 1
        /\ sensors[1].sensor_id = sensor_data[p].sensor_id
        /\ sensors[1].name = sensor_data[p].name
        /\ pc[MqttThread] = "done"
        /\ sensor_data[MqttThread].sensor_id = sensor_data[p].sensor_id
        /\ sensor_data[MqttThread].name # sensors[1].name
        /\ ReadingStored(MqttThread)
        /\ Len(readings) = 1

\* C20: a handler stands before the insert of its Alert only with the
\* answer "none" of its recent-alert query, taken in an earlier step.
C20_DecidedBefore ==
    \A p \in Procs : pc[p] = "add_alert" => recent_alert[p] = "none"

\* C20: the insert does not look at the alerts table again: unless the
\* commit fails, the step stores the handler's Alert, also when another
\* handler has stored an Alert of the same sensor since the query.
C20_InsertStep ==
    \A p \in Procs :
        (pc[p] = "add_alert" /\ pc'[p] # "add_alert" /\ printed'[p] = "")
        => /\ pc'[p] = "notify"
           /\ Len(alerts') = Len(alerts) + 1
           /\ alerts'[Len(alerts')].sensor_id = sensor_data[p].sensor_id
           /\ \A i \in 1..Len(alerts) : alerts'[i] = alerts[i]

\* C20: the recent-alert check and the insert of the Alert are two steps,
\* and the second is taken whatever happened to the table in between.
C20_CheckThenAct == [](C20_DecidedBefore) /\ [][C20_InsertStep]_vars

\* C20 witness: two handlers of alert-worthy readings of one sensor ran
\* together with no Alert of the sensor stored, both got "none" from the
\* query, both stored an Alert: two Alerts of one sensor with the same
\* timestamp.
C20_Witness ==
    \E p, q \in Procs :
        /\ p # q
        /\ sensor_data[p].sensor_id = sensor_data[q].sensor_id
        /\ AlertWorthy(sensor_data[p]) /\ AlertWorthy(sensor_data[q])
        /\ recent_alert[p] = "none" /\ recent_alert[q] = "none"
        /\ alert[p] # 0 /\ alert[q] # 0 /\ alert[p] # alert[q]
        /\ Len(alerts) = 2
        /\ alerts[1].sensor_id = alerts[2].sensor_id
        /\ alerts[2].timestamp - alerts[1].timestamp < Hour

\* C21: on an available database, when two handlers for the same sensor
\* identifier have both finished, both have their Reading stored and the
\* identifier has one Sensor row: none of the two was dropped over the
\* registration of the sensor.
C21_BothStored ==
    \A p, q \in Procs :
        ( /\ p # q
          /\ pc[p] = "done" /\ pc[q] = "done"
          /\ sensor_data[p] # NoData
          /\ sensor_data[p].sensor_id = sensor_data[q].sensor_id )
        => /\ ReadingStored(p)
           /\ ReadingStored(q)
           /\ reading[p] # reading[q]
           /\ Cardinality(RowsOf(sensor_data[p].sensor_id)) = 1

\* C22: every stored Reading and every stored Alert names a sensor_id that
\* has a Sensor row, and every stored Alert has a stored Reading of the same
\* sensor_id and the same value.
C22_Referential ==
    /\ \A i \in 1..Len(readings) : RowsOf(readings[i].sensor_id) # {}
    /\ \A i \in 1..Len(alerts) :
            /\ RowsOf(alerts[i].sensor_id) # {}
            /\ \E j \in 1..Len(readings) :
                    /\ readings[j].sensor_id = alerts[i].sensor_id
                    /\ readings[j].value = alerts[i].value
                    /\ readings[j].timestamp <= alerts[i].timestamp

\* C22 witness: after a handler failed on the storage, an Alert is stored
\* next to the Reading that caused it and the Sensor row of both.
C22_Witness ==
    /\ ErrStoreOperational \in log
    /\ Len(alerts) = 1
    /\ Len(readings) = 1
    /\ Len(sensors) = 1
    /\ readings[1].sensor_id = sensors[1].sensor_id
    /\ alerts[1].sensor_id = sensors[1].sensor_id
    /\ alerts[1].value = readings[1].value

\* The Alerts of sensor id that are less than one cooldown old, of either
\* direction.
InCooldown(id) ==
    {i \in 1..Len(alerts) : alerts[i].sensor_id = id /\ now - alerts[i].timestamp < Hour}

\* C23: when the handler of an alert-worthy reading leaves the alert check,
\* it is suppressed if an Alert of its sensor is less than one cooldown old,
\* whether that Alert is "Low" or "High" and whichever the reading is, and
\* it goes on to store its Alert if there is none, whatever Alerts other
\* sensors have.
C23_CheckStep ==
    \A p \in Procs :
        (pc[p] = "check_alert" /\ pc'[p] # "check_alert" /\ AlertWorthy(sensor_data[p]))
        => IF InCooldown(sensor_data[p].sensor_id) # {}
           THEN /\ pc'[p] = "done"
                /\ alert'[p] = 0
                /\ alerts' = alerts
           ELSE pc'[p] = "add_alert"

\* C23: a finished handler that was suppressed stored no Alert, and the
\* Alerts of one sensor are a cooldown apart whatever their directions.
C23_Suppressed ==
    /\ \A p \in Procs :
            (pc[p] = "done" /\ recent_alert[p] = "found") => alert[p] = 0
    /\ \A i, j \in 1..Len(alerts) :
            (i < j /\ alerts[i].sensor_id = alerts[j].sensor_id)
            => alerts[j].timestamp - alerts[i].timestamp >= Hour

\* C23: the dedup is keyed on the sensor identifier only.
C23_KeyedOnSensor == [](C23_Suppressed) /\ [][C23_CheckStep]_vars

\* C23 witness: temperature_den has a "Low" Alert less than one cooldown
\* old, and a reading above the maximum has been handled and suppressed.
C23_Witness ==
    \E p \in Procs :
        /\ pc[p] = "done"
        /\ IsHigh(sensor_data[p])
        /\ recent_alert[p] = "found"
        /\ alert[p] = 0
        /\ ReadingStored(p)
        /\ Len(alerts) = 1
        /\ alerts[1].sensor_id = sensor_data[p].sensor_id
        /\ alerts[1].message.direction = "Low"
        /\ now - alerts[1].timestamp < Hour

\* Two sensors have an Alert each, less than one cooldown apart.
C23_OtherSensor ==
    /\ Len(alerts) = 2
    /\ alerts[1].sensor_id # alerts[2].sensor_id
    /\ alerts[2].timestamp - alerts[1].timestamp < Hour

\* C24: when the handler of an alert-worthy reading leaves the alert check
\* at time now: if the newest Alert of its sensor was created exactly one
\* cooldown before now, the handler is not suppressed and goes on to store
\* its Alert; if an Alert of its sensor was created later than that, it is
\* suppressed.
C24_BoundaryStep ==
    \A p \in Procs :
        LET mine == {i \in 1..Len(alerts) : alerts[i].sensor_id = sensor_data[p].sensor_id}
        IN  (pc[p] = "check_alert" /\ pc'[p] # "check_alert" /\ AlertWorthy(sensor_data[p]))
            => /\ ( /\ \E i \in mine : alerts[i].timestamp = now - Hour
                    /\ \A i \in mine : alerts[i].timestamp <= now - Hour )
                  => (pc'[p] = "add_alert" /\ recent_alert'[p] = "none")
               /\ (\E i \in mine : alerts[i].timestamp > now - Hour)
                  => (pc'[p] = "done" /\ recent_alert'[p] = "found" /\ alerts' = alerts)

\* C24: the cooldown comparison is strict.
C24_StrictCooldown == [][C24_BoundaryStep]_vars

\* C24 witness: the second Alert of a sensor was created exactly one
\* cooldown after the first, by a handler whose check found nothing.
C24_Witness ==
    \E p \in Procs :
        /\ pc[p] \in {"notify", "done"}
        /\ recent_alert[p] = "none"
        /\ alert[p] = 2
        /\ Len(alerts) = 2
        /\ alerts[1].sensor_id = alerts[2].sensor_id
        /\ alerts[2].timestamp - alerts[1].timestamp = Hour

====
